---- MODULE Spec2Model ----
(***************************************************************************)
(* Cart / coupon / inventory / order engine of the ShopEase backend.       *)
(*                                                                         *)
(* Money is counted in 1/10000 of a dollar, so that the percentage         *)
(* discount (x / 100) and the 8% tax (x * 0.08) of calculateTotals are     *)
(* exact integers for the whole-dollar prices used here.                   *)
(*                                                                         *)
(* Documents are Mongoose documents: a request loads a copy, changes it    *)
(* in memory and save() writes back the paths it modified.  Handlers that  *)
(* touch one document are one action; createOrder and cancelOrder, which   *)
(* read and write several documents with awaits in between, are a          *)
(* sequence of steps held in a request slot.                               *)
(*                                                                         *)
(* A timeline entry is its status, a cart line's id is its position in     *)
(* the list, and a product keeps its set of SKUs unless a product update   *)
(* replaces the list.  A shopper has one request in flight at a time.      *)
(***************************************************************************)
EXTENDS Integers, Sequences, FiniteSets, TLC

\* ---------------------------------------------------------------- bounds
MaxQty == 2
MaxOrders == 1
MaxTimeline == 3
MaxCartOrders == 2

\* ------------------------------------------------------- policy constants
Dollar == 10000
TaxPct == 8
FreeShippingThreshold == 50 * Dollar
ShippingFee == 59900

\* ------------------------------------------------------------ the catalog
Users == {"u1", "u2"}
Products == {"p1", "p2"}
SkusOf(p) == IF p = "p1" THEN {"s1", "s2"} ELSE IF p = "p2" THEN {"s3"} ELSE {}
Price(p) == IF p = "p1" THEN 20 * Dollar ELSE 15 * Dollar

\* productSchema.category
Category(p) == IF p = "p1" THEN "c1" ELSE "c2"

NoCode == "none"
Now == 5

Null == -1
Truthy(x) == x # Null /\ x # 0

\* The coupons on file.  code, type, value, limits, window and scope never
\* change here; usageCount, usedBy and the version key do (variable coupons).
CouponCodes == {"SAVE10", "FLAT30", "HALF", "OFF", "OLD", "ZERO", "CAT", "SOON"}
CouponDef(c) ==
  CASE c = "SAVE10" ->
         [discountType |-> "percentage", discountValue |-> 10,
          minimumPurchase |-> 20 * Dollar, maximumDiscount |-> Null,
          usageLimit |-> [total |-> Null, perUser |-> 1],
          applyTo |-> "all", applicableProducts |-> {}, applicableCategories |-> {},
          startDate |-> 0, endDate |-> 9, isActive |-> TRUE]
    [] c = "FLAT30" ->
         [discountType |-> "fixed", discountValue |-> 30 * Dollar,
          minimumPurchase |-> 30 * Dollar, maximumDiscount |-> Null,
          usageLimit |-> [total |-> 1, perUser |-> 1],
          applyTo |-> "products", applicableProducts |-> {"p1"}, applicableCategories |-> {},
          startDate |-> 0, endDate |-> 9, isActive |-> TRUE]
    [] c = "HALF" ->
         [discountType |-> "percentage", discountValue |-> 50,
          minimumPurchase |-> 0, maximumDiscount |-> 10 * Dollar,
          usageLimit |-> [total |-> Null, perUser |-> Null],
          applyTo |-> "all", applicableProducts |-> {}, applicableCategories |-> {},
          startDate |-> 0, endDate |-> 9, isActive |-> TRUE]
    [] c = "OFF" ->
         [discountType |-> "percentage", discountValue |-> 10,
          minimumPurchase |-> 0, maximumDiscount |-> Null,
          usageLimit |-> [total |-> Null, perUser |-> Null],
          applyTo |-> "all", applicableProducts |-> {}, applicableCategories |-> {},
          startDate |-> 0, endDate |-> 9, isActive |-> FALSE]
    [] c = "ZERO" ->
         [discountType |-> "percentage", discountValue |-> 10,
          minimumPurchase |-> 0, maximumDiscount |-> Null,
          usageLimit |-> [total |-> 0, perUser |-> Null],
          applyTo |-> "all", applicableProducts |-> {}, applicableCategories |-> {},
          startDate |-> 0, endDate |-> 9, isActive |-> TRUE]
    [] c = "CAT" ->
         [discountType |-> "percentage", discountValue |-> 10,
          minimumPurchase |-> 0, maximumDiscount |-> Null,
          usageLimit |-> [total |-> Null, perUser |-> Null],
          applyTo |-> "categories", applicableProducts |-> {}, applicableCategories |-> {"c1"},
          startDate |-> 0, endDate |-> 9, isActive |-> TRUE]
    [] c = "SOON" ->
         [discountType |-> "percentage", discountValue |-> 10,
          minimumPurchase |-> 0, maximumDiscount |-> Null,
          usageLimit |-> [total |-> Null, perUser |-> Null],
          applyTo |-> "all", applicableProducts |-> {}, applicableCategories |-> {},
          startDate |-> 7, endDate |-> 9, isActive |-> TRUE]
    [] OTHER ->
         [discountType |-> "percentage", discountValue |-> 10,
          minimumPurchase |-> 0, maximumDiscount |-> Null,
          usageLimit |-> [total |-> Null, perUser |-> Null],
          applyTo |-> "all", applicableProducts |-> {}, applicableCategories |-> {},
          startDate |-> 0, endDate |-> 3, isActive |-> TRUE]

\* code.toUpperCase() of the codes a request may send
RequestCodes == {"SAVE10", "save10", "FLAT30", "HALF", "OFF", "OLD", "NOPE"}
ToUpperCase(code) == IF code = "save10" THEN "SAVE10" ELSE code

Statuses == {"pending", "processing", "shipped", "delivered", "cancelled", "refunded", "returned"}

VARIABLES products, carts, coupons, orders, slot, reply
vars == <<products, carts, coupons, orders, slot, reply>>

\* ------------------------------------------------------------ sequences
RECURSIVE SumSeq(_)
SumSeq(s) == IF s = <<>> THEN 0 ELSE Head(s) + SumSeq(Tail(s))

RECURSIVE SumSet(_, _)
SumSet(S, f) == IF S = {} THEN 0
                ELSE LET x == CHOOSE y \in S : TRUE IN f[x] + SumSet(S \ {x}, f)

\* items.pull(itemId): the list without the line at position i
Pull(items, i) == [k \in 1..(Len(items) - 1) |-> IF k < i THEN items[k] ELSE items[k + 1]]

\* findIndex: first position whose line is (p, sku), 0 when there is none
FindIndex(items, p, sku) ==
  IF \E k \in 1..Len(items) : items[k].product = p /\ items[k].sku = sku
  THEN CHOOSE k \in 1..Len(items) :
         /\ items[k].product = p /\ items[k].sku = sku
         /\ \A j \in 1..(k - 1) : ~(items[j].product = p /\ items[j].sku = sku)
  ELSE 0

\* ------------------------------------------------------------------ Cart
NoCoupon == [code |-> NoCode, discount |-> 0, discountType |-> "percentage"]

NoCart == [exists |-> FALSE, items |-> <<>>, coupon |-> NoCoupon,
           subtotal |-> 0, discount |-> 0, tax |-> 0, shipping |-> 0, total |-> 0]

Subtotal(items) == SumSeq([k \in 1..Len(items) |-> items[k].price * items[k].quantity])

\* calculateTotals with the free-shipping threshold applied to the
\* discounted subtotal
calculateTotals_discountedThreshold(cart) ==
  LET subtotal == Subtotal(cart.items)
      discount == IF cart.coupon.code # NoCode
                  THEN IF cart.coupon.discountType = "percentage"
                       THEN (subtotal * cart.coupon.discount) \div 100
                       ELSE cart.coupon.discount
                  ELSE 0
      tax == ((subtotal - discount) * TaxPct) \div 100
      shipping == IF subtotal - discount > FreeShippingThreshold THEN 0 ELSE ShippingFee
  IN [cart EXCEPT !.subtotal = subtotal, !.discount = discount, !.tax = tax,
                  !.shipping = shipping,
                  !.total = subtotal - discount + tax + shipping]

calculateTotals(cart) ==
  LET subtotal == Subtotal(cart.items)
      discount == IF cart.coupon.code # NoCode
                  THEN IF cart.coupon.discountType = "percentage"
                       THEN (subtotal * cart.coupon.discount) \div 100
                       ELSE cart.coupon.discount
                  ELSE 0
      tax == ((subtotal - discount) * TaxPct) \div 100
      shipping == IF subtotal > FreeShippingThreshold THEN 0 ELSE ShippingFee
  IN [cart EXCEPT !.subtotal = subtotal, !.discount = discount, !.tax = tax,
                  !.shipping = shipping,
                  !.total = subtotal - discount + tax + shipping]

\* cart.save(): the pre-save hook recomputes the totals, the validators
\* reject a line whose quantity is below 1
CartValid(cart) == \A k \in 1..Len(cart.items) : cart.items[k].quantity >= 1
\* a save without the hook: the totals stay as they were loaded
SaveCart_stale(cart) == [cart EXCEPT !.exists = TRUE]
SaveCart(cart) == calculateTotals([cart EXCEPT !.exists = TRUE])

\* ---------------------------------------------------------------- Coupon
isValid(def, doc) ==
  IF ~def.isActive THEN "Coupon is inactive"
  ELSE IF Now < def.startDate THEN "Coupon not yet active"
  ELSE IF Now > def.endDate THEN "Coupon has expired"
  ELSE IF Truthy(def.usageLimit.total) /\ doc.usageCount >= def.usageLimit.total
       THEN "Usage limit reached"
  ELSE "ok"

UserIndex(usedBy, u) ==
  IF \E k \in 1..Len(usedBy) : usedBy[k].user = u
  THEN CHOOSE k \in 1..Len(usedBy) :
         usedBy[k].user = u /\ \A j \in 1..(k - 1) : usedBy[j].user # u
  ELSE 0

\* canUserUse that lets a user reach the limit plus one
canUserUse_offByOne(def, doc, u) ==
  LET k == UserIndex(doc.usedBy, u) IN
  IF Truthy(def.usageLimit.perUser) /\ k > 0 /\ doc.usedBy[k].count > def.usageLimit.perUser
  THEN "Per-user limit reached"
  ELSE "ok"

canUserUse(def, doc, u) ==
  LET k == UserIndex(doc.usedBy, u) IN
  IF Truthy(def.usageLimit.perUser) /\ k > 0 /\ doc.usedBy[k].count >= def.usageLimit.perUser
  THEN "Per-user limit reached"
  ELSE "ok"

Min(a, b) == IF a < b THEN a ELSE b
Max(a, b) == IF a > b THEN a ELSE b

\* Math.round(x * 100) / 100 of an amount: to whole cents, half up
RoundCents(x) == ((x + 50) \div 100) * 100

calculateDiscount(def, subtotal, productIds, categoryIds) ==
  IF def.applyTo = "products" /\ def.applicableProducts # {}
     /\ productIds \cap def.applicableProducts = {}
  THEN [applicable |-> FALSE, reason |-> "Coupon not applicable to these products", discount |-> 0]
  ELSE IF def.applyTo = "categories" /\ def.applicableCategories # {}
          /\ categoryIds \cap def.applicableCategories = {}
  THEN [applicable |-> FALSE, reason |-> "Coupon not applicable to these categories", discount |-> 0]
  ELSE IF subtotal < def.minimumPurchase
  THEN [applicable |-> FALSE, reason |-> "Minimum purchase required", discount |-> 0]
  ELSE LET raw == IF def.discountType = "percentage"
                  THEN LET pct == (subtotal * def.discountValue) \div 100
                       IN IF Truthy(def.maximumDiscount) THEN Min(pct, def.maximumDiscount) ELSE pct
                  ELSE def.discountValue
       IN [applicable |-> TRUE, reason |-> "ok", discount |-> RoundCents(raw)]

\* --------------------------------------------------------------- replies
Reply(op, status, message) == [op |-> op, status |-> status, message |-> message]
NoReply == Reply("none", 0, "")

\* ---------------------------------------------------------- cart handlers
Line(pid, sku, q) == [product |-> pid, sku |-> sku, quantity |-> q, price |-> Price(pid)]

CartOf(u) == IF carts[u].exists THEN carts[u] ELSE NoCart

getCart(u) ==
  /\ carts' = IF carts[u].exists THEN carts ELSE [carts EXCEPT ![u] = SaveCart(NoCart)]
  /\ reply' = Reply("getCart", 200, "")
  /\ UNCHANGED <<products, coupons, orders, slot>>

\* addItem that checks the stock against the requested quantity only
addItem_noMerge(u, pid, sku, q) ==
  /\ UNCHANGED <<products, coupons, orders, slot>>
  /\ IF q < 1
     THEN /\ reply' = Reply("addItem", 400, "Quantity must be at least 1")
          /\ UNCHANGED carts
     ELSE IF pid \notin Products \/ ~products[pid].isActive
     THEN /\ reply' = Reply("addItem", 404, "Product not found")
          /\ UNCHANGED carts
     ELSE IF sku \notin DOMAIN products[pid].inventory
     THEN /\ reply' = Reply("addItem", 404, "Product variant not found")
          /\ UNCHANGED carts
     ELSE IF products[pid].inventory[sku] < q
     THEN /\ reply' = Reply("addItem", 400, "Only N items available in stock")
          /\ UNCHANGED carts
     ELSE LET cart == CartOf(u)
              k == FindIndex(cart.items, pid, sku)
          IN /\ carts' = [carts EXCEPT ![u] = SaveCart(
                            IF k > 0
                            THEN [cart EXCEPT !.items[k].quantity = @ + q]
                            ELSE [cart EXCEPT !.items = Append(@, Line(pid, sku, q))])]
             /\ reply' = Reply("addItem", 200, "Item added to cart")

addItem(u, pid, sku, q) ==
  /\ UNCHANGED <<products, coupons, orders, slot>>
  /\ IF q < 1
     THEN /\ reply' = Reply("addItem", 400, "Quantity must be at least 1")
          /\ UNCHANGED carts
     ELSE IF pid \notin Products \/ ~products[pid].isActive
     THEN /\ reply' = Reply("addItem", 404, "Product not found")
          /\ UNCHANGED carts
     ELSE IF sku \notin DOMAIN products[pid].inventory
     THEN /\ reply' = Reply("addItem", 404, "Product variant not found")
          /\ UNCHANGED carts
     ELSE IF products[pid].inventory[sku] < q
     THEN /\ reply' = Reply("addItem", 400, "Only N items available in stock")
          /\ UNCHANGED carts
     ELSE LET cart == CartOf(u)
              k == FindIndex(cart.items, pid, sku)
          IN IF k > 0
             THEN LET newQuantity == cart.items[k].quantity + q IN
                  IF products[pid].inventory[sku] < newQuantity
                  THEN /\ reply' = Reply("addItem", 400, "Only N items available in stock")
                       /\ UNCHANGED carts
                  ELSE /\ carts' = [carts EXCEPT ![u] =
                                      SaveCart([cart EXCEPT !.items[k].quantity = newQuantity])]
                       /\ reply' = Reply("addItem", 200, "Item added to cart")
             ELSE /\ carts' = [carts EXCEPT ![u] =
                                 SaveCart([cart EXCEPT !.items = Append(@, Line(pid, sku, q))])]
                  /\ reply' = Reply("addItem", 200, "Item added to cart")

updateItemQuantity(u, itemId, quantity) ==
  /\ UNCHANGED <<products, coupons, orders, slot>>
  /\ IF ~carts[u].exists
     THEN /\ reply' = Reply("updateItemQuantity", 404, "Cart not found")
          /\ UNCHANGED carts
     ELSE IF itemId \notin 1..Len(carts[u].items)
     THEN /\ reply' = Reply("updateItemQuantity", 404, "Cart item not found")
          /\ UNCHANGED carts
     ELSE LET cartItem == carts[u].items[itemId]
              inventory == products[cartItem.product].inventory
          IN IF cartItem.sku \in DOMAIN inventory /\ inventory[cartItem.sku] < quantity
             THEN /\ reply' = Reply("updateItemQuantity", 400, "Only N items available in stock")
                  /\ UNCHANGED carts
             ELSE /\ carts' = [carts EXCEPT ![u] = SaveCart(
                                 IF quantity <= 0
                                 THEN [@ EXCEPT !.items = Pull(@, itemId)]
                                 ELSE [@ EXCEPT !.items[itemId].quantity = quantity])]
                  /\ reply' = Reply("updateItemQuantity", 200, "Cart updated")

\* an itemId that matches no line (position 0 here) pulls nothing
removeItem(u, itemId) ==
  /\ UNCHANGED <<products, coupons, orders, slot>>
  /\ IF ~carts[u].exists
     THEN /\ reply' = Reply("removeItem", 404, "Cart not found")
          /\ UNCHANGED carts
     ELSE /\ carts' = [carts EXCEPT ![u] = SaveCart(
                         IF itemId \in 1..Len(@.items)
                         THEN [@ EXCEPT !.items = Pull(@, itemId)] ELSE @)]
          /\ reply' = Reply("removeItem", 200, "Item removed from cart")

clearCartHandler(u) ==
  /\ UNCHANGED <<products, coupons, orders, slot>>
  /\ IF ~carts[u].exists
     THEN /\ reply' = Reply("clearCart", 404, "Cart not found")
          /\ UNCHANGED carts
     ELSE /\ carts' = [carts EXCEPT ![u] = SaveCart([@ EXCEPT !.items = <<>>, !.coupon = NoCoupon])]
          /\ reply' = Reply("clearCart", 200, "Cart cleared")

\* applyCoupon without the per-user check
ApplyCouponCheck_skipsUser(u, cart, code, cdocs) ==
  LET c == ToUpperCase(code) IN
  IF ~cart.exists THEN Reply("applyCoupon", 404, "Cart not found")
  ELSE IF Len(cart.items) = 0 THEN Reply("applyCoupon", 400, "Cannot apply coupon to empty cart")
  ELSE IF c \notin CouponCodes THEN Reply("applyCoupon", 404, "Invalid coupon code")
  ELSE IF isValid(CouponDef(c), cdocs[c]) # "ok"
       THEN Reply("applyCoupon", 400, isValid(CouponDef(c), cdocs[c]))
  ELSE LET productIds == {cart.items[k].product : k \in 1..Len(cart.items)}
           result == calculateDiscount(CouponDef(c), cart.subtotal, productIds, {})
       IN IF ~result.applicable THEN Reply("applyCoupon", 400, result.reason)
          ELSE Reply("applyCoupon", 200, "Coupon applied successfully")

\* The reply of applyCoupon for cart, request code and coupon documents
\* cdocs: the first check that fails, or "ok".
ApplyCouponCheck(u, cart, code, cdocs) ==
  LET c == ToUpperCase(code) IN
  IF ~cart.exists THEN Reply("applyCoupon", 404, "Cart not found")
  ELSE IF Len(cart.items) = 0 THEN Reply("applyCoupon", 400, "Cannot apply coupon to empty cart")
  ELSE IF c \notin CouponCodes THEN Reply("applyCoupon", 404, "Invalid coupon code")
  ELSE IF isValid(CouponDef(c), cdocs[c]) # "ok"
       THEN Reply("applyCoupon", 400, isValid(CouponDef(c), cdocs[c]))
  ELSE IF canUserUse(CouponDef(c), cdocs[c], u) # "ok"
       THEN Reply("applyCoupon", 400, canUserUse(CouponDef(c), cdocs[c], u))
  ELSE LET productIds == {cart.items[k].product : k \in 1..Len(cart.items)}
           result == calculateDiscount(CouponDef(c), cart.subtotal, productIds, {})
       IN IF ~result.applicable THEN Reply("applyCoupon", 400, result.reason)
          ELSE Reply("applyCoupon", 200, "Coupon applied successfully")

applyCoupon(u, code) ==
  LET c == ToUpperCase(code)
      res == ApplyCouponCheck(u, carts[u], code, coupons)
  IN /\ UNCHANGED <<products, coupons, orders, slot>>
     /\ reply' = res
     /\ IF res.status = 200
        THEN carts' = [carts EXCEPT ![u] = SaveCart([@ EXCEPT !.coupon =
                          [code |-> c, discount |-> CouponDef(c).discountValue,
                           discountType |-> CouponDef(c).discountType]])]
        ELSE UNCHANGED carts

removeCoupon(u) ==
  /\ UNCHANGED <<products, coupons, orders, slot>>
  /\ IF ~carts[u].exists
     THEN /\ reply' = Reply("removeCoupon", 404, "Cart not found")
          /\ UNCHANGED carts
     ELSE /\ carts' = [carts EXCEPT ![u] = SaveCart([@ EXCEPT !.coupon = NoCoupon])]
          /\ reply' = Reply("removeCoupon", 200, "Coupon removed")

\* validItems of syncCart: the request's lines whose product is active and
\* whose SKU is in stock, each quantity cut down to the stock
RECURSIVE ValidItems(_)
ValidItems(items) ==
  IF items = <<>> THEN <<>>
  ELSE LET item == Head(items)
           ok == /\ item.productId \in Products
                 /\ products[item.productId].isActive
                 /\ item.sku \in DOMAIN products[item.productId].inventory
                 /\ products[item.productId].inventory[item.sku] > 0
       IN IF ok
          THEN <<Line(item.productId, item.sku,
                      Min(item.quantity, products[item.productId].inventory[item.sku]))>>
               \o ValidItems(Tail(items))
          ELSE ValidItems(Tail(items))

syncCart(u, items) ==
  LET cart == [CartOf(u) EXCEPT !.items = ValidItems(items)] IN
  /\ UNCHANGED <<products, coupons, orders, slot>>
  /\ IF CartValid(cart)
     THEN /\ carts' = [carts EXCEPT ![u] = SaveCart(cart)]
          /\ reply' = Reply("syncCart", 200, "Cart synced")
     ELSE /\ reply' = Reply("syncCart", 500, "Quantity must be at least 1")
          /\ UNCHANGED carts

\* --------------------------------------------------------------- Product
TotalOf(inventory) == SumSet(DOMAIN inventory, inventory)

\* updateStock without the floor at zero
updateStock_noFloor(doc, sku, quantity) ==
  IF sku \in DOMAIN doc.inventory
  THEN LET inv == [doc.inventory EXCEPT ![sku] = @ - quantity]
       IN [doc EXCEPT !.inventory = inv, !.totalQuantity = TotalOf(inv)]
  ELSE doc

\* updateStock that leaves a stock smaller than the quantity as it is
updateStock_keepsShort(doc, sku, quantity) ==
  IF sku \in DOMAIN doc.inventory /\ doc.inventory[sku] >= quantity
  THEN LET inv == [doc.inventory EXCEPT ![sku] = @ - quantity]
       IN [doc EXCEPT !.inventory = inv, !.totalQuantity = TotalOf(inv)]
  ELSE doc

\* productSchema.methods.updateStock, on the loaded document
updateStock(doc, sku, quantity) ==
  IF sku \in DOMAIN doc.inventory
  THEN LET inv == [doc.inventory EXCEPT ![sku] = Max(0, @ - quantity)]
       IN [doc EXCEPT !.inventory = inv, !.totalQuantity = TotalOf(inv)]
  ELSE doc

\* pre('save') of a product: totalQuantity follows a modified inventory
ProductPreSave(loaded, doc) ==
  IF doc.inventory # loaded.inventory
  THEN [doc EXCEPT !.totalQuantity = TotalOf(doc.inventory)]
  ELSE doc

\* save() of a loaded product: the stored document db takes the paths on
\* which doc differs from what was loaded
SaveProduct(db, loaded, doc) ==
  LET d == ProductPreSave(loaded, doc) IN
  [db EXCEPT
     !.inventory = [s \in DOMAIN db.inventory |->
                      IF s \in DOMAIN d.inventory /\ d.inventory[s] # loaded.inventory[s]
                      THEN d.inventory[s] ELSE db.inventory[s]],
     !.totalQuantity = IF d.totalQuantity # loaded.totalQuantity THEN d.totalQuantity ELSE @,
     !.salesCount = IF d.salesCount # loaded.salesCount THEN d.salesCount ELSE @,
     !.isActive = IF d.isActive # loaded.isActive THEN d.isActive ELSE @]

ProductValid(doc) ==
  /\ \A s \in DOMAIN doc.inventory : doc.inventory[s] >= 0
  /\ doc.totalQuantity >= 0

InitStock == MaxQty
InitProduct(p) == [inventory |-> [s \in SkusOf(p) |-> InitStock],
                   totalQuantity |-> InitStock * Cardinality(SkusOf(p)),
                   salesCount |-> 0, isActive |-> TRUE]

\* ---------------------------------------------------------------- Coupon
NewCoupon == [usageCount |-> 0, usedBy |-> <<>>, v |-> 0]

\* recordUsage that counts the use but not the user
recordUsage_noUser(doc, u) == [doc EXCEPT !.usageCount = @ + 1]

\* couponSchema.methods.recordUsage, on the loaded document
recordUsage(doc, u) ==
  LET k == UserIndex(doc.usedBy, u) IN
  [doc EXCEPT !.usageCount = @ + 1,
              !.usedBy = IF k > 0 THEN [@ EXCEPT ![k].count = @ + 1]
                         ELSE Append(@, [user |-> u, count |-> 1])]

\* save() of a loaded coupon.  usageCount is $set.  A new usedBy entry is a
\* $push, which bumps the version key and is appended to the stored array;
\* a changed count of an existing entry is a positional $set, which is only
\* applied when the stored version key is still the loaded one.
CouponSaveFails(db, loaded, doc) ==
  /\ Len(doc.usedBy) = Len(loaded.usedBy)
  /\ doc.usedBy # loaded.usedBy
  /\ db.v # loaded.v

SaveCoupon(db, loaded, doc) ==
  [db EXCEPT
     !.usageCount = IF doc.usageCount # loaded.usageCount THEN doc.usageCount ELSE @,
     !.usedBy = IF Len(doc.usedBy) > Len(loaded.usedBy)
                THEN Append(@, doc.usedBy[Len(doc.usedBy)])
                ELSE [k \in 1..Len(@) |->
                        IF k <= Len(doc.usedBy) /\ doc.usedBy[k] # loaded.usedBy[k]
                        THEN doc.usedBy[k] ELSE @[k]],
     !.v = IF Len(doc.usedBy) > Len(loaded.usedBy) THEN @ + 1 ELSE @]

\* ----------------------------------------------------------------- Order
NewOrder(u, cart) ==
  [user |-> u,
   items |-> cart.items,
   pricing |-> [subtotal |-> cart.subtotal, discount |-> cart.discount,
                couponCode |-> cart.coupon.code, tax |-> cart.tax,
                shipping |-> cart.shipping, total |-> cart.total],
   payment |-> [status |-> "pending", refundAmount |-> 0],
   status |-> "pending",
   timeline |-> <<"pending">>,
   tracking |-> "none"]

\* updateStatus writing over the last timeline entry instead of pushing
updateStatus_rewrite(order, status) ==
  [order EXCEPT !.status = status, !.timeline = [@ EXCEPT ![Len(@)] = status]]

\* orderSchema.methods: each changes the document and saves it; the new
\* timeline entry is pushed onto the stored timeline
updateStatus(order, status) ==
  [order EXCEPT !.status = status, !.timeline = Append(@, status)]

cancel(order) ==
  [order EXCEPT !.status = "cancelled", !.timeline = Append(@, "cancelled")]

\* processRefund taking the refund off the order's total
orderProcessRefund_reprice(order, amount) ==
  [order EXCEPT
     !.payment.status = IF amount >= order.pricing.total THEN "refunded" ELSE "partially_refunded",
     !.payment.refundAmount = amount,
     !.pricing.total = @ - amount,
     !.status = IF amount >= order.pricing.total THEN "refunded" ELSE @,
     !.timeline = Append(@, "refunded")]

orderProcessRefund(order, amount) ==
  [order EXCEPT
     !.payment.status = IF amount >= order.pricing.total THEN "refunded" ELSE "partially_refunded",
     !.payment.refundAmount = amount,
     !.status = IF amount >= order.pricing.total THEN "refunded" ELSE @,
     !.timeline = Append(@, "refunded")]

orderAddTracking(order, carrier) == [order EXCEPT !.tracking = carrier]

\* ---------------------------------------------------------------- slots
Reqs == {"r1", "r2"}
\* A request in flight: where it is (pc), who sent it, the order it is
\* about, the lines it walks through (items, i), the coupon code of the
\* cart it loaded, and the product and coupon documents it holds.  pre is
\* not read by any handler: it keeps the stored products as they were when
\* the request started, to state what the whole request did.
IdleSlot == [pc |-> "idle", user |-> "u1", order |-> 0, i |-> 0,
             items |-> <<>>, code |-> NoCode, product |-> InitProduct("p2"),
             coupon |-> NewCoupon, pre |-> [p \in Products |-> InitProduct(p)]]

Idle == \A r \in Reqs : slot[r].pc = "idle"
Busy(u) == \E r \in Reqs : slot[r].pc # "idle" /\ slot[r].user = u

\* ------------------------------------------------------------ createOrder
\* a stock check that lets a line pass when its SKU has no record
StockOk_missingOk(item) ==
  \/ item.sku \notin DOMAIN products[item.product].inventory
  \/ products[item.product].inventory[item.sku] >= item.quantity

\* lines 25-29: the line's SKU has a record with enough stock
StockOk(item) ==
  /\ item.sku \in DOMAIN products[item.product].inventory
  /\ products[item.product].inventory[item.sku] >= item.quantity

\* lines 10-71: load the cart, validate the stock of every line, create the order
createOrder(r, u) ==
  /\ slot[r].pc = "idle"
  /\ UNCHANGED <<products, carts, coupons>>
  /\ IF ~carts[u].exists \/ Len(carts[u].items) = 0
     THEN /\ reply' = Reply("createOrder", 400, "Cart is empty")
          /\ UNCHANGED <<orders, slot>>
     ELSE IF \E k \in 1..Len(carts[u].items) : ~StockOk(carts[u].items[k])
     THEN /\ reply' = Reply("createOrder", 400, "out of stock or insufficient quantity")
          /\ UNCHANGED <<orders, slot>>
     ELSE /\ orders' = Append(orders, NewOrder(u, carts[u]))
          /\ slot' = [slot EXCEPT ![r] = [IdleSlot EXCEPT !.pc = "co_load", !.user = u,
                                            !.order = Len(orders) + 1, !.i = 1,
                                            !.items = carts[u].items,
                                            !.code = carts[u].coupon.code,
                                            !.pre = products]]
          /\ UNCHANGED reply

\* line 75: Product.findById
coLoadProduct(r) ==
  /\ slot[r].pc = "co_load"
  /\ slot' = [slot EXCEPT ![r].product = products[slot[r].items[slot[r].i].product],
                          ![r].pc = "co_stock"]
  /\ UNCHANGED <<products, carts, coupons, orders, reply>>

\* line 76: product.updateStock(item.sku, item.quantity), which saves
coUpdateStock(r) ==
  LET item == slot[r].items[slot[r].i]
      doc == updateStock(slot[r].product, item.sku, item.quantity)
  IN /\ slot[r].pc = "co_stock"
     /\ products' = [products EXCEPT ![item.product] = SaveProduct(@, slot[r].product, doc)]
     /\ slot' = [slot EXCEPT ![r].product = ProductPreSave(slot[r].product, doc),
                             ![r].pc = "co_sales"]
     /\ UNCHANGED <<carts, coupons, orders, reply>>

\* lines 77-78: product.salesCount += item.quantity; product.save()
coSaveSales(r) ==
  LET item == slot[r].items[slot[r].i]
      doc == [slot[r].product EXCEPT !.salesCount = @ + item.quantity]
  IN /\ slot[r].pc = "co_sales"
     /\ products' = [products EXCEPT ![item.product] = SaveProduct(@, slot[r].product, doc)]
     /\ slot' = [slot EXCEPT ![r].product = IdleSlot.product,
                             ![r].i = @ + 1,
                             ![r].pc = IF slot[r].i < Len(slot[r].items)
                                       THEN "co_load" ELSE "co_coupon"]
     /\ UNCHANGED <<carts, coupons, orders, reply>>

\* lines 82-83: Coupon.findOne when the cart carried a code
coLoadCoupon(r) ==
  /\ slot[r].pc = "co_coupon"
  /\ slot' = IF slot[r].code \in CouponCodes
             THEN [slot EXCEPT ![r].coupon = coupons[slot[r].code], ![r].pc = "co_record"]
             ELSE [slot EXCEPT ![r].pc = "co_clear"]
  /\ UNCHANGED <<products, carts, coupons, orders, reply>>

\* coRecordUsage that empties the cart when the save fails
coRecordUsage_clearsCart(r) ==
  LET c == slot[r].code
      doc == recordUsage(slot[r].coupon, slot[r].user)
  IN /\ slot[r].pc = "co_record"
     /\ UNCHANGED <<products, orders>>
     /\ IF CouponSaveFails(coupons[c], slot[r].coupon, doc)
        THEN /\ reply' = Reply("createOrder", 500, "VersionError")
             /\ slot' = [slot EXCEPT ![r] = IdleSlot]
             /\ carts' = [carts EXCEPT ![slot[r].user] = SaveCart([@ EXCEPT !.items = <<>>, !.coupon = NoCoupon])]
             /\ UNCHANGED coupons
        ELSE /\ coupons' = [coupons EXCEPT ![c] = SaveCoupon(@, slot[r].coupon, doc)]
             /\ slot' = [slot EXCEPT ![r].coupon = IdleSlot.coupon, ![r].pc = "co_clear"]
             /\ UNCHANGED <<carts, reply>>

\* line 85: coupon.recordUsage(req.user.id); a failed save ends the request
coRecordUsage(r) ==
  LET c == slot[r].code
      doc == recordUsage(slot[r].coupon, slot[r].user)
  IN /\ slot[r].pc = "co_record"
     /\ UNCHANGED <<products, carts, orders>>
     /\ IF CouponSaveFails(coupons[c], slot[r].coupon, doc)
        THEN /\ reply' = Reply("createOrder", 500, "VersionError")
             /\ slot' = [slot EXCEPT ![r] = IdleSlot]
             /\ UNCHANGED coupons
        ELSE /\ coupons' = [coupons EXCEPT ![c] = SaveCoupon(@, slot[r].coupon, doc)]
             /\ slot' = [slot EXCEPT ![r].coupon = IdleSlot.coupon, ![r].pc = "co_clear"]
             /\ UNCHANGED reply

\* clearCart that empties the lines and keeps the coupon
clearCart_keepsCoupon(cart) == SaveCart([cart EXCEPT !.items = <<>>])

\* cartSchema.methods.clearCart
clearCart(cart) == SaveCart([cart EXCEPT !.items = <<>>, !.coupon = NoCoupon])

\* lines 90-100: cart.clearCart() and the 201 reply
coClearCart(r) ==
  /\ slot[r].pc = "co_clear"
  /\ carts' = [carts EXCEPT ![slot[r].user] = clearCart(@)]
  /\ reply' = Reply("createOrder", 201, "Order placed successfully")
  /\ slot' = [slot EXCEPT ![r] = IdleSlot]
  /\ UNCHANGED <<products, coupons, orders>>

\* ------------------------------------------------------------ cancelOrder
\* a check that only refuses orders already cancelled
Cancellable_loose(status) == status # "cancelled"

\* line 199: only pending or processing orders may be cancelled
Cancellable(status) == status \in {"pending", "processing"}

\* lines 183-204: find the user's order, refuse unless it may be cancelled
cancelOrder(r, u, o) ==
  /\ slot[r].pc = "idle"
  /\ UNCHANGED <<products, carts, coupons, orders>>
  /\ IF o \notin 1..Len(orders) \/ orders[o].user # u
     THEN /\ reply' = Reply("cancelOrder", 404, "Order not found")
          /\ UNCHANGED slot
     ELSE IF ~Cancellable(orders[o].status)
     THEN /\ reply' = Reply("cancelOrder", 400, "Cannot cancel order with status")
          /\ UNCHANGED slot
     ELSE /\ slot' = [slot EXCEPT ![r] = [IdleSlot EXCEPT !.pc = "ca_load", !.user = u,
                                            !.order = o, !.i = 1,
                                            !.items = orders[o].items,
                                            !.pre = products]]
          /\ UNCHANGED reply

\* line 208: Product.findById
caLoadProduct(r) ==
  /\ slot[r].pc = "ca_load"
  /\ slot' = [slot EXCEPT ![r].product = products[slot[r].items[slot[r].i].product],
                          ![r].pc = "ca_restore"]
  /\ UNCHANGED <<products, carts, coupons, orders, reply>>

\* a restore that forgets the sales counter
restoreStock_keepsSales(doc, sku, quantity) ==
  IF sku \in DOMAIN doc.inventory
  THEN LET inv == [doc.inventory EXCEPT ![sku] = @ + quantity]
       IN [doc EXCEPT !.inventory = inv, !.totalQuantity = TotalOf(inv)]
  ELSE doc

\* lines 210-215, on the loaded document
restoreStock(doc, sku, quantity) ==
  IF sku \in DOMAIN doc.inventory
  THEN LET inv == [doc.inventory EXCEPT ![sku] = @ + quantity]
       IN [doc EXCEPT !.inventory = inv, !.totalQuantity = TotalOf(inv),
                      !.salesCount = @ - quantity]
  ELSE doc

caRestore(r) ==
  LET item == slot[r].items[slot[r].i]
      doc == restoreStock(slot[r].product, item.sku, item.quantity)
  IN /\ slot[r].pc = "ca_restore"
     /\ products' = [products EXCEPT ![item.product] = SaveProduct(@, slot[r].product, doc)]
     /\ slot' = [slot EXCEPT ![r].product = IdleSlot.product,
                             ![r].i = @ + 1,
                             ![r].pc = IF slot[r].i < Len(slot[r].items)
                                       THEN "ca_load" ELSE "ca_cancel"]
     /\ UNCHANGED <<carts, coupons, orders, reply>>

\* line 220: order.cancel(reason, req.user.id)
caCancel(r) ==
  /\ slot[r].pc = "ca_cancel"
  /\ orders' = [orders EXCEPT ![slot[r].order] = cancel(@)]
  /\ reply' = Reply("cancelOrder", 200, "Order cancelled successfully")
  /\ slot' = [slot EXCEPT ![r] = IdleSlot]
  /\ UNCHANGED <<products, carts, coupons>>

\* ---------------------------------------------------- admin order handlers
\* updateOrderStatus that refuses to move an order out of cancelled or
\* delivered
updateOrderStatus_terminal(o, status) ==
  /\ UNCHANGED <<products, carts, coupons, slot>>
  /\ IF o \notin 1..Len(orders)
     THEN /\ reply' = Reply("updateOrderStatus", 404, "Order not found")
          /\ UNCHANGED orders
     ELSE IF orders[o].status \in {"cancelled", "delivered"}
     THEN /\ reply' = Reply("updateOrderStatus", 400, "Invalid status transition")
          /\ UNCHANGED orders
     ELSE /\ orders' = [orders EXCEPT ![o] = updateStatus(@, status)]
          /\ reply' = Reply("updateOrderStatus", 200, "Order status updated")

updateOrderStatus(o, status) ==
  /\ UNCHANGED <<products, carts, coupons, slot>>
  /\ IF o \notin 1..Len(orders)
     THEN /\ reply' = Reply("updateOrderStatus", 404, "Order not found")
          /\ UNCHANGED orders
     ELSE /\ orders' = [orders EXCEPT ![o] = updateStatus(@, status)]
          /\ reply' = Reply("updateOrderStatus", 200, "Order status updated")

\* addTracking that moves the order to shipped whatever its status
addTracking_alwaysShips(o, carrier) ==
  /\ UNCHANGED <<products, carts, coupons, slot>>
  /\ IF o \notin 1..Len(orders)
     THEN /\ reply' = Reply("addTracking", 404, "Order not found")
          /\ UNCHANGED orders
     ELSE /\ orders' = [orders EXCEPT ![o] = updateStatus(orderAddTracking(@, carrier), "shipped")]
          /\ reply' = Reply("addTracking", 200, "Tracking information added")

addTracking(o, carrier) ==
  /\ UNCHANGED <<products, carts, coupons, slot>>
  /\ IF o \notin 1..Len(orders)
     THEN /\ reply' = Reply("addTracking", 404, "Order not found")
          /\ UNCHANGED orders
     ELSE /\ orders' = [orders EXCEPT ![o] =
                          IF @.status \in {"pending", "processing"}
                          THEN updateStatus(orderAddTracking(@, carrier), "shipped")
                          ELSE orderAddTracking(@, carrier)]
          /\ reply' = Reply("addTracking", 200, "Tracking information added")

\* processRefund without the check of the amount against the total
processRefund_noLimit(o, amount) ==
  /\ UNCHANGED <<products, carts, coupons, slot>>
  /\ IF o \notin 1..Len(orders)
     THEN /\ reply' = Reply("processRefund", 404, "Order not found")
          /\ UNCHANGED orders
     ELSE /\ orders' = [orders EXCEPT ![o] = orderProcessRefund(@, amount)]
          /\ reply' = Reply("processRefund", 200, "Refund processed successfully")

processRefund(o, amount) ==
  /\ UNCHANGED <<products, carts, coupons, slot>>
  /\ IF o \notin 1..Len(orders)
     THEN /\ reply' = Reply("processRefund", 404, "Order not found")
          /\ UNCHANGED orders
     ELSE IF amount > orders[o].pricing.total
     THEN /\ reply' = Reply("processRefund", 400, "Refund amount cannot exceed order total")
          /\ UNCHANGED orders
     ELSE /\ orders' = [orders EXCEPT ![o] = orderProcessRefund(@, amount)]
          /\ reply' = Reply("processRefund", 200, "Refund processed successfully")

updatePaymentStatus(o, status) ==
  /\ UNCHANGED <<products, carts, coupons, slot>>
  /\ IF o \notin 1..Len(orders)
     THEN /\ reply' = Reply("updatePaymentStatus", 404, "Order not found")
          /\ UNCHANGED orders
     ELSE /\ orders' = [orders EXCEPT ![o].payment.status = status]
          /\ reply' = Reply("updatePaymentStatus", 200, "Payment status updated")

\* -------------------------------------------------- admin product handlers
\* PUT /products/:id/stock
updateStockHandler(pid, sku, quantity) ==
  /\ UNCHANGED <<carts, coupons, orders, slot>>
  /\ IF pid \notin Products
     THEN /\ reply' = Reply("updateStock", 404, "Product not found")
          /\ UNCHANGED products
     ELSE IF sku \notin DOMAIN products[pid].inventory
     THEN /\ reply' = Reply("updateStock", 404, "Inventory item not found")
          /\ UNCHANGED products
     ELSE LET inv == [products[pid].inventory EXCEPT ![sku] = quantity]
              doc == [products[pid] EXCEPT !.inventory = inv, !.totalQuantity = TotalOf(inv)]
          IN IF ProductValid(doc)
             THEN /\ products' = [products EXCEPT ![pid] = SaveProduct(@, @, doc)]
                  /\ reply' = Reply("updateStock", 200, "Stock updated successfully")
             ELSE /\ reply' = Reply("updateStock", 500, "ValidationError")
                  /\ UNCHANGED products

\* PUT /products/:id with a body that carries a new inventory list:
\* findByIdAndUpdate sets the body's fields and runs no save hook
updateProduct(pid, inventory) ==
  /\ UNCHANGED <<carts, coupons, orders, slot>>
  /\ IF pid \notin Products
     THEN /\ reply' = Reply("updateProduct", 404, "Product not found")
          /\ UNCHANGED products
     ELSE /\ products' = [products EXCEPT ![pid].inventory = inventory]
          /\ reply' = Reply("updateProduct", 200, "Product updated successfully")

\* ------------------------------------------------------------------ Init
Init ==
  /\ products = [p \in Products |-> InitProduct(p)]
  /\ carts = [u \in Users |-> NoCart]
  /\ coupons = [c \in CouponCodes |-> NewCoupon]
  /\ orders = <<>>
  /\ slot = [r \in Reqs |-> IdleSlot]
  /\ reply = NoReply

\* ------------------------------------------------------- request inputs
\* The model stops taking checkouts at MaxOrders orders, and requests that
\* add to an order's timeline at MaxTimeline entries.
OrderRoom(n) == Len(orders) < n
TimelineRoom(o) == o \in 1..Len(orders) => Len(orders[o].timeline) < MaxTimeline
Quantities == 0..MaxQty
ItemIds == 0..2
\* (productId, sku) of addItem: two purchasable variants, an unknown
\* product and a SKU that is not the product's
AddInputs == {<<"p1", "s1">>, <<"p2", "s3">>, <<"p0", "s1">>, <<"p2", "s1">>}
SyncItem(pid, sku, q) == [productId |-> pid, sku |-> sku, quantity |-> q]
SyncInputs == {<<>>,
               <<SyncItem("p1", "s1", MaxQty + 1)>>,
               <<SyncItem("p1", "s1", 1), SyncItem("p1", "s1", 1)>>,
               <<SyncItem("p2", "s3", 0)>>,
               <<SyncItem("p0", "s1", 1), SyncItem("p2", "s3", 1)>>}

\* ------------------------------------------------------------- SpecCart
\* One shopper's cart under every cart request, one request at a time,
\* with checkouts so that coupon usage gets recorded.
Shopper == "u1"

NextCart ==
  \/ Idle /\ getCart(Shopper)
  \/ Idle /\ \E x \in AddInputs, q \in Quantities : addItem(Shopper, x[1], x[2], q)
  \/ Idle /\ \E i \in ItemIds, q \in Quantities : updateItemQuantity(Shopper, i, q)
  \/ Idle /\ \E i \in ItemIds : removeItem(Shopper, i)
  \/ Idle /\ clearCartHandler(Shopper)
  \/ Idle /\ \E code \in RequestCodes : applyCoupon(Shopper, code)
  \/ Idle /\ removeCoupon(Shopper)
  \/ Idle /\ \E items \in SyncInputs : syncCart(Shopper, items)
  \/ Idle /\ OrderRoom(MaxCartOrders) /\ createOrder("r1", Shopper)
  \/ coLoadProduct("r1")
  \/ coUpdateStock("r1")
  \/ coSaveSales("r1")
  \/ coLoadCoupon("r1")
  \/ coRecordUsage("r1")
  \/ coClearCart("r1")

SpecCart == Init /\ [][NextCart]_vars

\* ----------------------------------------------------------------- Spec
\* The order life cycle, one request at a time: a shopper fills a cart
\* and checks out, orders are cancelled by their owner or refused to
\* others, and the admin tracks, refunds and moves them between statuses.
BuyInputs == {<<"p1", "s1", MaxQty>>, <<"p2", "s3", 1>>}
BuyCodes == {"SAVE10"}
OrderIds == 1..(MaxOrders + 1)
RefundAmounts(o) ==
  IF o \in 1..Len(orders)
  THEN {orders[o].pricing.total \div 2, orders[o].pricing.total, orders[o].pricing.total + Dollar}
  ELSE {0}
PaymentStatuses == {"completed"}
StockBodies(p) == {[s \in SkusOf(p) |-> q] : q \in {0, MaxQty}}

Next ==
  \/ Idle /\ \E x \in BuyInputs : addItem(Shopper, x[1], x[2], x[3])
  \/ Idle /\ removeItem(Shopper, 1)
  \/ Idle /\ \E code \in BuyCodes : applyCoupon(Shopper, code)
  \/ Idle /\ removeCoupon(Shopper)
  \/ Idle /\ OrderRoom(MaxOrders) /\ createOrder("r1", Shopper)
  \/ coLoadProduct("r1")
  \/ coUpdateStock("r1")
  \/ coSaveSales("r1")
  \/ coLoadCoupon("r1")
  \/ coRecordUsage("r1")
  \/ coClearCart("r1")
  \/ Idle /\ \E u \in Users, o \in OrderIds : TimelineRoom(o) /\ cancelOrder("r1", u, o)
  \/ caLoadProduct("r1")
  \/ caRestore("r1")
  \/ caCancel("r1")
  \/ Idle /\ \E o \in OrderIds, st \in Statuses : TimelineRoom(o) /\ updateOrderStatus(o, st)
  \/ Idle /\ \E o \in OrderIds : TimelineRoom(o) /\ addTracking(o, "ups")
  \/ Idle /\ \E o \in OrderIds : \E a \in RefundAmounts(o) : TimelineRoom(o) /\ processRefund(o, a)
  \/ Idle /\ \E o \in OrderIds, st \in PaymentStatuses : updatePaymentStatus(o, st)

Spec == Init /\ [][Next]_vars

\* ------------------------------------------------------------- SpecConc
\* Two shoppers whose checkouts and cancellations interleave step by step
\* with each other and with the admin's stock edits.  A shopper has one
\* request in flight at a time.
MaxConcOrders == 2
SlotOf(u) == IF u = "u1" THEN "r1" ELSE "r2"
ConcOrderIds == 1..MaxConcOrders

NextConc ==
  \/ \E u \in Users : ~Busy(u) /\ addItem(u, "p1", "s1", MaxQty)
  \/ \E u \in Users : OrderRoom(MaxConcOrders) /\ createOrder(SlotOf(u), u)
  \/ \E r \in Reqs : coLoadProduct(r)
  \/ \E r \in Reqs : coUpdateStock(r)
  \/ \E r \in Reqs : coSaveSales(r)
  \/ \E r \in Reqs : coLoadCoupon(r)
  \/ \E r \in Reqs : coClearCart(r)
  \/ \E u \in Users, o \in ConcOrderIds : cancelOrder(SlotOf(u), u, o)
  \/ \E r \in Reqs : caLoadProduct(r)
  \/ \E r \in Reqs : caRestore(r)
  \/ \E r \in Reqs : caCancel(r)
  \/ \E q \in Quantities : updateStockHandler("p1", "s1", q)

SpecConc == Init /\ [][NextConc]_vars

\* ----------------------------------------------------------- SpecCoupon
\* Two shoppers who apply coupons and whose checkouts interleave step by
\* step, so that two requests hold the same coupon document at once.
MaxCouponOrders == 3
CouponRunCodes == {"HALF"}
CouponRunInput(u) == IF u = "u1" THEN <<"p1", "s1">> ELSE <<"p2", "s3">>

NextCoupon ==
  \/ \E u \in Users : ~Busy(u) /\ addItem(u, CouponRunInput(u)[1], CouponRunInput(u)[2], 1)
  \/ \E u \in Users, code \in CouponRunCodes : ~Busy(u) /\ applyCoupon(u, code)
  \/ \E u \in Users : OrderRoom(MaxCouponOrders) /\ createOrder(SlotOf(u), u)
  \/ \E r \in Reqs : coLoadProduct(r)
  \/ \E r \in Reqs : coUpdateStock(r)
  \/ \E r \in Reqs : coSaveSales(r)
  \/ \E r \in Reqs : coLoadCoupon(r)
  \/ \E r \in Reqs : coRecordUsage(r)
  \/ \E r \in Reqs : coClearCart(r)

SpecCoupon == Init /\ [][NextCoupon]_vars

\* ------------------------------------------------------------ SpecStock
\* Every way the stock of product p1 changes, one request at a time: a
\* checkout, a cancellation, the admin's stock endpoint and the admin's
\* product update with a new inventory list.
NextStock ==
  \/ Idle /\ \E q \in 1..MaxQty : addItem(Shopper, "p1", "s1", q)
  \/ Idle /\ OrderRoom(MaxOrders) /\ createOrder("r1", Shopper)
  \/ coLoadProduct("r1")
  \/ coUpdateStock("r1")
  \/ coSaveSales("r1")
  \/ coLoadCoupon("r1")
  \/ coClearCart("r1")
  \/ Idle /\ \E o \in OrderIds : TimelineRoom(o) /\ cancelOrder("r1", Shopper, o)
  \/ caLoadProduct("r1")
  \/ caRestore("r1")
  \/ caCancel("r1")
  \/ Idle /\ \E sku \in SkusOf("p1"), q \in Quantities : updateStockHandler("p1", sku, q)
  \/ Idle /\ \E inv \in StockBodies("p1") : updateProduct("p1", inv)

SpecStock == Init /\ [][NextStock]_vars

\* ----------------------------------------------------------- SpecReject
\* One shopper who fills a cart, applies a coupon and checks out while the
\* admin lowers the stock of s1 or replaces the inventory list of p1 by one
\* without s1, one request at a time.
DropBodies == {[s \in {"s2"} |-> MaxQty], [s \in SkusOf("p1") |-> MaxQty]}

NextReject ==
  \/ Idle /\ \E x \in BuyInputs : addItem(Shopper, x[1], x[2], x[3])
  \/ Idle /\ clearCartHandler(Shopper)
  \/ Idle /\ \E code \in BuyCodes : applyCoupon(Shopper, code)
  \/ Idle /\ OrderRoom(MaxCartOrders) /\ createOrder("r1", Shopper)
  \/ coLoadProduct("r1")
  \/ coUpdateStock("r1")
  \/ coSaveSales("r1")
  \/ coLoadCoupon("r1")
  \/ coRecordUsage("r1")
  \/ coClearCart("r1")
  \/ Idle /\ \E q \in Quantities : updateStockHandler("p1", "s1", q)
  \/ Idle /\ \E inv \in DropBodies : updateProduct("p1", inv)

SpecReject == Init /\ [][NextReject]_vars

\* ----------------------------------------------------------- SpecCancel
\* One order of one shopper, who once the checkout has replied may send
\* two cancel requests at once, while the admin moves the order between
\* statuses, tracks and refunds it.  Nothing but the checkout and the
\* cancels touches the stock.
MaxCancelTimeline == 4
CancelRoom == orders # <<>> => Len(orders[1].timeline) < MaxCancelTimeline
CheckedOut == \A r \in Reqs : slot[r].pc \in {"idle", "ca_load", "ca_restore", "ca_cancel"}

NextCancel ==
  \/ Idle /\ \E q \in 1..MaxQty : addItem(Shopper, "p1", "s1", q)
  \/ Idle /\ OrderRoom(MaxOrders) /\ createOrder("r1", Shopper)
  \/ coLoadProduct("r1")
  \/ coUpdateStock("r1")
  \/ coSaveSales("r1")
  \/ coLoadCoupon("r1")
  \/ coClearCart("r1")
  \/ \E r \in Reqs : CheckedOut /\ CancelRoom /\ cancelOrder(r, Shopper, 1)
  \/ \E r \in Reqs : caLoadProduct(r)
  \/ \E r \in Reqs : caRestore(r)
  \/ \E r \in Reqs : CancelRoom /\ caCancel(r)
  \/ Idle /\ \E st \in Statuses : CancelRoom /\ updateOrderStatus(1, st)
  \/ Idle /\ CancelRoom /\ addTracking(1, "ups")
  \/ Idle /\ \E a \in RefundAmounts(1) : CancelRoom /\ processRefund(1, a)

SpecCancel == Init /\ [][NextCancel]_vars

\* ----------------------------------------------------------- SpecLimits
\* Two shoppers who fill their carts, apply the coupon that has a total
\* and a per-user limit, and check out, one request at a time.
LimitCodes == {"FLAT30"}
LimitInput(u) == IF u = "u1" THEN <<"p1", "s1">> ELSE <<"p1", "s2">>

NextLimits ==
  \/ \E u \in Users : Idle /\ addItem(u, LimitInput(u)[1], LimitInput(u)[2], MaxQty)
  \/ \E u \in Users, code \in LimitCodes : Idle /\ applyCoupon(u, code)
  \/ \E u \in Users : Idle /\ removeCoupon(u)
  \/ \E u \in Users : Idle /\ OrderRoom(MaxConcOrders) /\ createOrder(SlotOf(u), u)
  \/ \E r \in Reqs : coLoadProduct(r)
  \/ \E r \in Reqs : coUpdateStock(r)
  \/ \E r \in Reqs : coSaveSales(r)
  \/ \E r \in Reqs : coLoadCoupon(r)
  \/ \E r \in Reqs : coRecordUsage(r)
  \/ \E r \in Reqs : coClearCart(r)

SpecLimits == Init /\ [][NextLimits]_vars

\* ----------------------------------------------------------- SpecDouble
\* One shopper who fills the cart, applies a coupon and may send two
\* checkout requests at once.
NextDouble ==
  \/ Idle /\ \E q \in 1..MaxQty : addItem(Shopper, "p1", "s1", q)
  \/ Idle /\ applyCoupon(Shopper, "HALF")
  \/ \E r \in Reqs : OrderRoom(MaxConcOrders) /\ createOrder(r, Shopper)
  \/ \E r \in Reqs : coLoadProduct(r)
  \/ \E r \in Reqs : coUpdateStock(r)
  \/ \E r \in Reqs : coSaveSales(r)
  \/ \E r \in Reqs : coLoadCoupon(r)
  \/ \E r \in Reqs : coRecordUsage(r)
  \/ \E r \in Reqs : coClearCart(r)

SpecDouble == Init /\ [][NextDouble]_vars

\* ---------------------------------------------------------- SpecInverse
\* Two shoppers who buy the same SKU and cancel their orders, their
\* requests interleaving step by step; nobody else touches the stock.
NextInverse ==
  \/ \E u \in Users, q \in 1..MaxQty : ~Busy(u) /\ addItem(u, "p1", "s1", q)
  \/ \E u \in Users : OrderRoom(MaxConcOrders) /\ createOrder(SlotOf(u), u)
  \/ \E r \in Reqs : coLoadProduct(r)
  \/ \E r \in Reqs : coUpdateStock(r)
  \/ \E r \in Reqs : coSaveSales(r)
  \/ \E r \in Reqs : coLoadCoupon(r)
  \/ \E r \in Reqs : coClearCart(r)
  \/ \E u \in Users, o \in ConcOrderIds : cancelOrder(SlotOf(u), u, o)
  \/ \E r \in Reqs : caLoadProduct(r)
  \/ \E r \in Reqs : caRestore(r)
  \/ \E r \in Reqs : caCancel(r)

SpecInverse == Init /\ [][NextInverse]_vars

\* ------------------------------------------------------------ SpecScope
\* One shopper who applies the coupons with a total limit, a window or a
\* scope, and checks out, one request at a time.
ScopeCodes == {"ZERO", "CAT", "SOON", "FLAT30", "OFF", "OLD"}

NextScope ==
  \/ Idle /\ \E x \in BuyInputs : addItem(Shopper, x[1], x[2], x[3])
  \/ Idle /\ \E i \in 1..2 : removeItem(Shopper, i)
  \/ Idle /\ \E code \in ScopeCodes : applyCoupon(Shopper, code)
  \/ Idle /\ removeCoupon(Shopper)
  \/ Idle /\ OrderRoom(MaxCartOrders) /\ createOrder("r1", Shopper)
  \/ coLoadProduct("r1")
  \/ coUpdateStock("r1")
  \/ coSaveSales("r1")
  \/ coLoadCoupon("r1")
  \/ coRecordUsage("r1")
  \/ coClearCart("r1")

SpecScope == Init /\ [][NextScope]_vars

\* --------------------------------------------------------- SpecOversell
\* Two shoppers who buy the same SKU and whose checkouts interleave step
\* by step; nothing puts stock back.
NextOversell ==
  \/ \E u \in Users, q \in 1..MaxQty : ~Busy(u) /\ addItem(u, "p1", "s1", q)
  \/ \E u \in Users : OrderRoom(MaxConcOrders) /\ createOrder(SlotOf(u), u)
  \/ \E r \in Reqs : coLoadProduct(r)
  \/ \E r \in Reqs : coUpdateStock(r)
  \/ \E r \in Reqs : coSaveSales(r)
  \/ \E r \in Reqs : coLoadCoupon(r)
  \/ \E r \in Reqs : coClearCart(r)

SpecOversell == Init /\ [][NextOversell]_vars

\* ================================================================ claims

\* C1: after any sequence of cart requests (addItem, updateItemQuantity,
\* removeItem, clearCart, applyCoupon, removeCoupon, syncCart), every
\* stored cart has subtotal = the sum of price * quantity over its lines
\* and total = subtotal - discount + tax + shipping.
C1_CartTotals ==
  \A u \in Users : carts[u].exists =>
    /\ carts[u].subtotal =
         SumSeq([k \in 1..Len(carts[u].items) |->
                   carts[u].items[k].price * carts[u].items[k].quantity])
    /\ carts[u].total =
         carts[u].subtotal - carts[u].discount + carts[u].tax + carts[u].shipping

\* a synced cart that carries a coupon and a discount
C1_Witness ==
  /\ reply.op = "syncCart" /\ reply.status = 200
  /\ Len(carts[Shopper].items) >= 1
  /\ carts[Shopper].coupon.code # NoCode
  /\ carts[Shopper].discount > 0

\* C2: for every product, totalQuantity is the sum of its inventory
\* quantities after a checkout decrement, a cancellation restore, the
\* admin stock endpoint and an admin product update that changes the
\* inventory list.
C2_TotalQuantity ==
  \A p \in Products : products[p].totalQuantity = TotalOf(products[p].inventory)

\* what C3 asks of a state and of a decrement step
C3_NonNegative ==
  \A p \in Products : \A s \in DOMAIN products[p].inventory : products[p].inventory[s] >= 0

C3_FloorStep ==
  \A r \in Reqs :
    LET item == slot[r].items[slot[r].i] IN
    (/\ coUpdateStock(r)
     /\ slot[r].product.inventory[item.sku] = products[item.product].inventory[item.sku]
     /\ item.quantity > products[item.product].inventory[item.sku])
    => products'[item.product].inventory[item.sku] = 0

C4_Step ==
  \A o \in 1..Len(orders) :
    /\ o <= Len(orders')
    /\ orders'[o].pricing = orders[o].pricing
    /\ orders'[o].items = orders[o].items

\* C4: once an order exists, no request changes its pricing (subtotal,
\* discount, couponCode, tax, shipping, total) or its items: not a change
\* of the cart it came from, not updateStatus, cancel, addTracking,
\* processRefund or updatePaymentStatus.
C4_OrderFrozen == [][C4_Step]_vars

\* an order that was refunded, whose shopper has since filled a new cart
\* with another total and coupon
C4_Witness ==
  /\ Len(orders) >= 1
  /\ orders[1].payment.refundAmount > 0
  /\ orders[1].tracking # "none"
  /\ orders[1].pricing.couponCode = NoCode
  /\ carts[orders[1].user].coupon.code # NoCode
  /\ carts[orders[1].user].total # orders[1].pricing.total

\* what C5 asks of every step
C5_Step ==
  /\ Len(orders') >= Len(orders)
  /\ \A o \in 1..Len(orders') :
       IF o > Len(orders)
       THEN orders'[o].timeline = <<"pending">>
       ELSE LET old == orders[o].timeline
                new == orders'[o].timeline
                grew == Len(new) = Len(old) + 1
            IN /\ Len(new) >= Len(old)
               /\ SubSeq(new, 1, Len(old)) = old
               /\ (\E st \in Statuses : updateOrderStatus(o, st)) => grew
               /\ (\E r \in Reqs : caCancel(r) /\ slot[r].order = o) => grew
               /\ (\E a \in RefundAmounts(o) :
                     processRefund(o, a) /\ a <= orders[o].pricing.total) => grew
               /\ (addTracking(o, "ups") /\ orders[o].status \in {"pending", "processing"})
                    => grew

\* C5: an order's timeline is append-only.  A new order has exactly one
\* entry, 'pending'; no request removes or rewrites an entry; and every
\* updateStatus, cancel, processRefund and auto-shipping addTracking makes
\* the timeline exactly one entry longer.
C5_TimelineAppendOnly == [][C5_Step]_vars

\* an order shipped by addTracking and then partly refunded
C5_Witness ==
  /\ Len(orders) >= 1
  /\ orders[1].timeline = <<"pending", "shipped", "refunded">>
  /\ orders[1].tracking = "ups"
  /\ orders[1].payment.status = "partially_refunded"
  /\ reply = Reply("processRefund", 200, "Refund processed successfully")

\* C6: for every coupon, usageCount is the sum of the counts of its usedBy
\* entries, in every state that checkouts reach, checkouts of two
\* shoppers with the same coupon at the same time included.
C6_UsageSum ==
  \A c \in CouponCodes :
    coupons[c].usageCount =
      SumSeq([k \in 1..Len(coupons[c].usedBy) |-> coupons[c].usedBy[k].count])

\* what C7 asks of every step
C7_Step ==
  /\ \A r \in Reqs, u \in Users, o \in 1..Len(orders) :
       (/\ cancelOrder(r, u, o)
        /\ orders[o].user = u
        /\ orders[o].status \notin {"pending", "processing"})
       => /\ reply'.op = "cancelOrder"
          /\ reply'.status = 400
          /\ orders' = orders
          /\ products' = products
          /\ slot' = slot
  /\ \A r \in Reqs :
       (caLoadProduct(r) \/ caRestore(r) \/ caCancel(r))
       => orders[slot[r].order].status \in {"pending", "processing"}

\* C7: cancelOrder goes through only for an order that is pending or
\* processing.  For the owner's order in any other status the reply is a
\* 400 and the request ends there: orders (status, timeline) and products
\* (every inventory quantity, every salesCount) stay as they were.
C7_CancelGuard == [][C7_Step]_vars

\* a shipped order whose cancellation has just been refused
C7_Witness ==
  /\ Idle
  /\ reply = Reply("cancelOrder", 400, "Cannot cancel order with status")
  /\ \E o \in 1..Len(orders) : orders[o].status = "shipped" /\ products[orders[o].items[1].product].salesCount > 0

\* what C8 asks of the step that ends a cancellation
C8_Step ==
  \A r \in Reqs :
    caCancel(r) =>
      LET o == slot[r].order
          items == orders[o].items
          Restored(p, s) == SumSeq([k \in 1..Len(items) |->
                              IF items[k].product = p /\ items[k].sku = s
                              THEN items[k].quantity ELSE 0])
          Returned(p) == SumSeq([k \in 1..Len(items) |->
                              IF items[k].product = p THEN items[k].quantity ELSE 0])
      IN /\ \A p \in Products :
              /\ \A s \in DOMAIN products'[p].inventory :
                   products'[p].inventory[s] = slot[r].pre[p].inventory[s] + Restored(p, s)
              /\ products'[p].salesCount = slot[r].pre[p].salesCount - Returned(p)
         /\ orders'[o].status = "cancelled"
         /\ orders'[o].timeline = Append(orders[o].timeline, "cancelled")

\* C8: a cancellation of a pending or processing order, when it replies,
\* has raised the stock of each line's SKU by the line's quantity, lowered
\* each product's salesCount by the quantities of its lines, set the
\* status to cancelled and added exactly one timeline entry.
C8_CancelEffects == [][C8_Step]_vars

\* a cancelled order of two lines, after the 200 reply
C8_Witness ==
  /\ reply = Reply("cancelOrder", 200, "Order cancelled successfully")
  /\ Len(orders) >= 1
  /\ orders[1].status = "cancelled"
  /\ Len(orders[1].items) = 2
  /\ \A p \in Products : products[p].salesCount = 0

\* what C9 asks of a state between requests and of every step
C9_CountOf(c, u) ==
  SumSeq([k \in 1..Len(coupons[c].usedBy) |->
            IF coupons[c].usedBy[k].user = u THEN coupons[c].usedBy[k].count ELSE 0])

C9_Recorded ==
  Idle => \A c \in CouponCodes :
            /\ coupons[c].usageCount =
                 Cardinality({o \in 1..Len(orders) : orders[o].pricing.couponCode = c})
            /\ \A u \in Users :
                 C9_CountOf(c, u) =
                   Cardinality({o \in 1..Len(orders) :
                                  orders[o].pricing.couponCode = c /\ orders[o].user = u})

C9_Step ==
  /\ \A u \in Users, code \in RequestCodes : applyCoupon(u, code) => coupons' = coupons
  /\ \A r \in Reqs :
       (coRecordUsage(r) /\ slot'[r].pc = "co_clear") =>
         LET c == slot[r].code
             k == UserIndex(coupons'[c].usedBy, slot[r].user)
         IN /\ coupons'[c].usageCount = coupons[c].usageCount + 1
            /\ k > 0
            /\ coupons'[c].usedBy[k].count =
                 (IF UserIndex(coupons[c].usedBy, slot[r].user) > 0
                  THEN coupons[c].usedBy[UserIndex(coupons[c].usedBy, slot[r].user)].count
                  ELSE 0) + 1

\* C9: coupon usage is recorded once per completed checkout whose cart
\* carried a coupon, and not by applyCoupon: between requests, a coupon's
\* usageCount is the number of orders placed with it and each user's count
\* is the number of that user's orders placed with it; the recording step
\* of createOrder adds one to both; applyCoupon leaves the coupons alone.
C9_UsageRecorded == []C9_Recorded /\ [][C9_Step]_vars

\* the shopper's second checkout with the same coupon is done, and a new
\* cart carries the coupon again
C9_Witness ==
  /\ Idle
  /\ reply.op = "applyCoupon" /\ reply.status = 200
  /\ carts[Shopper].coupon.code = "HALF"
  /\ coupons["HALF"].usageCount = 2
  /\ coupons["HALF"].usedBy = <<[user |-> Shopper, count |-> 2]>>

\* what C10 asks of every applyCoupon step
C10_Step ==
  \A u \in Users, code \in RequestCodes :
    applyCoupon(u, code) =>
      LET cart == carts[u]
          c == ToUpperCase(code)
          productIds == {cart.items[k].product : k \in 1..Len(cart.items)}
          reason ==
            IF ~cart.exists THEN "Cart not found"
            ELSE IF cart.items = <<>> THEN "Cannot apply coupon to empty cart"
            ELSE IF c \notin CouponCodes THEN "Invalid coupon code"
            ELSE IF isValid(CouponDef(c), coupons[c]) # "ok"
                 THEN isValid(CouponDef(c), coupons[c])
            ELSE IF canUserUse(CouponDef(c), coupons[c], u) # "ok"
                 THEN canUserUse(CouponDef(c), coupons[c], u)
            ELSE calculateDiscount(CouponDef(c), cart.subtotal, productIds, {}).reason
          new == carts'[u]
      IN IF reason # "ok"
         THEN /\ reply'.op = "applyCoupon"
              /\ reply'.status \in {400, 404}
              /\ reply'.message = reason
              /\ carts' = carts
         ELSE /\ reply'.status = 200
              /\ new.coupon = [code |-> c, discount |-> CouponDef(c).discountValue,
                               discountType |-> CouponDef(c).discountType]
              /\ new.items = cart.items
              /\ new.subtotal = cart.subtotal
              /\ new.discount = IF CouponDef(c).discountType = "percentage"
                                THEN (new.subtotal * CouponDef(c).discountValue) \div 100
                                ELSE CouponDef(c).discountValue
              /\ new.tax = ((new.subtotal - new.discount) * TaxPct) \div 100
              /\ new.shipping = IF new.subtotal > FreeShippingThreshold THEN 0 ELSE ShippingFee
              /\ new.total = new.subtotal - new.discount + new.tax + new.shipping
              /\ \A w \in Users \ {u} : carts'[w] = carts[w]

\* C10: applyCoupon replies with the first failure in the order: cart not
\* found, empty cart, unknown code, isValid, canUserUse, calculateDiscount;
\* a failure leaves the cart as it was; a success stores the coupon's code,
\* discountValue and discountType on the cart, keeps its lines and
\* recomputes discount, tax, shipping and total.
C10_ApplyCoupon == [][C10_Step]_vars

\* a coupon the shopper has used up is refused and the cart keeps the
\* coupon it carried
C10_Witness ==
  /\ reply = Reply("applyCoupon", 400, "Per-user limit reached")
  /\ carts[Shopper].items # <<>>
  /\ carts[Shopper].coupon.code = "HALF"
  /\ carts[Shopper].discount > 0

\* the statement of C11 as it was made: a second applyCoupon of a coupon
\* with a per-user limit of 1, on a cart that carries it from the first,
\* is refused with 'Per-user limit reached' and leaves the cart alone
C11_SecondApplyRefused ==
  [][\A u \in Users, code \in RequestCodes :
       LET c == ToUpperCase(code) IN
       (/\ applyCoupon(u, code)
        /\ c \in CouponCodes
        /\ CouponDef(c).usageLimit.perUser = 1
        /\ carts[u].coupon.code = c)
       => /\ reply' = Reply("applyCoupon", 400, "Per-user limit reached")
          /\ carts' = carts]_vars

\* what the amended C11 asks of every applyCoupon step
C11_Step ==
  \A u \in Users, code \in RequestCodes :
    LET c == ToUpperCase(code) IN
    (/\ applyCoupon(u, code)
     /\ c \in CouponCodes
     /\ CouponDef(c).usageLimit.perUser = 1
     /\ carts[u].exists /\ carts[u].items # <<>>
     /\ isValid(CouponDef(c), coupons[c]) = "ok")
    => IF C9_CountOf(c, u) >= 1
       THEN /\ reply' = Reply("applyCoupon", 400, "Per-user limit reached")
            /\ carts' = carts
       ELSE /\ reply'.message # "Per-user limit reached"
            /\ (carts[u].coupon.code = c /\ reply'.status = 200)
                 => carts'[u].coupon = carts[u].coupon

\* C11 (amended): a user whose checkout with a coupon of per-user limit 1
\* has been recorded is refused with 'Per-user limit reached' when applying
\* it again to a cart with lines, and the cart stays as it was; applying
\* it twice with no checkout in between is not refused for that reason,
\* and the second application leaves the same coupon on the cart.
C11_PerUserLimit == [][C11_Step]_vars

\* after a checkout with SAVE10, the shopper's new cart was refused it
C11_Witness ==
  /\ Idle
  /\ reply = Reply("applyCoupon", 400, "Per-user limit reached")
  /\ C9_CountOf("SAVE10", Shopper) = 1
  /\ carts[Shopper].items # <<>>
  /\ carts[Shopper].coupon = NoCoupon

\* what C12 asks of every addItem step for a SKU on sale
C12_Step ==
  \A u \in Users, x \in AddInputs, q \in 1..MaxQty :
    LET pid == x[1]
        sku == x[2]
    IN (/\ addItem(u, pid, sku, q)
        /\ pid \in Products
        /\ products[pid].isActive
        /\ sku \in DOMAIN products[pid].inventory)
       => LET items == carts[u].items
              has == \E k \in 1..Len(items) : items[k].product = pid /\ items[k].sku = sku
              at == IF has
                    THEN CHOOSE k \in 1..Len(items) :
                           /\ items[k].product = pid /\ items[k].sku = sku
                           /\ \A j \in 1..(k - 1) :
                                ~(items[j].product = pid /\ items[j].sku = sku)
                    ELSE Len(items) + 1
              old == IF has THEN items[at].quantity ELSE 0
              stock == products[pid].inventory[sku]
              new == carts'[u].items
          IN IF stock < q + old
             THEN /\ reply' = Reply("addItem", 400, "Only N items available in stock")
                  /\ carts' = carts
             ELSE /\ reply'.status = 200
                  /\ Len(new) = IF has THEN Len(items) ELSE Len(items) + 1
                  /\ new[at].product = pid /\ new[at].sku = sku
                  /\ new[at].quantity = old + q
                  /\ new[at].quantity <= stock
                  /\ \A k \in 1..Len(items) : k # at => new[k] = items[k]

C13_DiscountWithinSubtotal ==
  \A u \in Users : carts[u].exists =>
    /\ carts[u].discount <= carts[u].subtotal
    /\ carts[u].tax >= 0

\* what C14 asks of the step that creates the order and of the step that
\* ends the checkout
C14_Step ==
  /\ \A r \in Reqs, u \in Users :
       (createOrder(r, u) /\ Len(orders') = Len(orders) + 1) =>
         LET order == orders'[Len(orders')]
             cart == carts[u]
         IN /\ order.user = u
            /\ order.status = "pending"
            /\ order.items = cart.items
            /\ order.pricing = [subtotal |-> cart.subtotal, discount |-> cart.discount,
                                couponCode |-> cart.coupon.code, tax |-> cart.tax,
                                shipping |-> cart.shipping, total |-> cart.total]
  /\ \A r \in Reqs :
       coClearCart(r) =>
         LET u == slot[r].user
             order == orders[slot[r].order]
             items == order.items
             Bought(p, s) == SumSeq([k \in 1..Len(items) |->
                               IF items[k].product = p /\ items[k].sku = s
                               THEN items[k].quantity ELSE 0])
             BoughtOf(p) == SumSeq([k \in 1..Len(items) |->
                               IF items[k].product = p THEN items[k].quantity ELSE 0])
         IN /\ order.status = "pending"
            /\ order.items = carts[u].items
            /\ order.pricing.total = carts[u].total
            /\ \A p \in Products :
                 /\ \A s \in DOMAIN products'[p].inventory :
                      products'[p].inventory[s] = slot[r].pre[p].inventory[s] - Bought(p, s)
                 /\ products'[p].salesCount = slot[r].pre[p].salesCount + BoughtOf(p)
            /\ carts'[u].items = <<>>
            /\ carts'[u].coupon = NoCoupon
            /\ reply' = Reply("createOrder", 201, "Order placed successfully")

C15_Step ==
  \A r \in Reqs :
    /\ (slot[r].pc \in {"co_load", "co_stock", "co_sales", "co_coupon", "co_clear"}
        /\ slot[r].code = NoCode
        /\ slot'[r].pc = "idle")
       => reply' = Reply("createOrder", 201, "Order placed successfully")
    /\ coUpdateStock(r) =>
         LET item == slot[r].items[slot[r].i]
             read == slot[r].product.inventory[item.sku]
         IN /\ slot'[r].product.inventory[item.sku] =
                 (IF read > item.quantity THEN read - item.quantity ELSE 0)
            /\ read # 0 => products'[item.product].inventory[item.sku] =
                 (IF read > item.quantity THEN read - item.quantity ELSE 0)

\* C15: checkout can oversell under concurrency.  The stock check and the
\* decrement are separate steps: a createOrder (of a cart without coupon)
\* that has passed the check never checks again and always replies 201,
\* and its decrement writes the quantity it read less the line's quantity,
\* or zero when that would be negative; so two checkouts by different
\* users for one SKU can both succeed with more units than were in stock.
C15_Oversell == [][C15_Step]_vars

\* two shoppers' orders for s1 are both placed, together for more units
\* than the stock ever held, and the stock is at zero
C15_Witness ==
  /\ Idle
  /\ reply = Reply("createOrder", 201, "Order placed successfully")
  /\ Len(orders) = 2
  /\ orders[1].user # orders[2].user
  /\ \A o \in 1..2 : Len(orders[o].items) = 1 /\ orders[o].items[1].sku = "s1"
  /\ orders[1].items[1].quantity + orders[2].items[1].quantity > InitStock
  /\ products["p1"].inventory["s1"] = 0

\* the cart of the scenario of C16: two units at $20, one at $15, and the
\* 10% coupon
C16_Cart(u) ==
  /\ carts[u].exists
  /\ Len(carts[u].items) = 2
  /\ {carts[u].items[k] : k \in 1..2} =
       {[product |-> "p1", sku |-> "s1", quantity |-> 2, price |-> 20 * Dollar],
        [product |-> "p2", sku |-> "s3", quantity |-> 1, price |-> 15 * Dollar]}
  /\ carts[u].coupon = [code |-> "SAVE10", discount |-> 10, discountType |-> "percentage"]

\* the statement of C16 as it was made: that cart has subtotal $55,
\* discount $5.50, tax $3.96, shipping $5.99 and total $59.45
C16_Scenario ==
  \A u \in Users : C16_Cart(u) =>
    /\ carts[u].subtotal = 550000
    /\ carts[u].discount = 55000
    /\ carts[u].tax = 39600
    /\ carts[u].shipping = 59900
    /\ carts[u].total = 594500

\* C16 (amended): a cart holding 2 units at $20 and 1 unit at $15 with a
\* 10% percentage coupon (no cap) has subtotal $55, discount $5.50, tax
\* $3.96, shipping $0 (the subtotal is over $50) and total $53.46.
C16_ScenarioFreeShipping ==
  \A u \in Users : C16_Cart(u) =>
    /\ carts[u].subtotal = 550000
    /\ carts[u].discount = 55000
    /\ carts[u].tax = 39600
    /\ carts[u].shipping = 0
    /\ carts[u].total = 534600

\* the shopper's cart is the cart of the scenario
C16_Witness == C16_Cart(Shopper) /\ Idle

\* C17: for a percentage coupon the discount on the cart, after applyCoupon
\* and after every later recomputation, is subtotal x discountValue / 100
\* capped at maximumDiscount when it is set; so it is never above
\* maximumDiscount and never above the subtotal.
C17_PercentageDiscount ==
  \A u \in Users :
    (/\ carts[u].exists
     /\ carts[u].coupon.code \in CouponCodes
     /\ CouponDef(carts[u].coupon.code).discountType = "percentage")
    => LET def == CouponDef(carts[u].coupon.code)
           pct == (carts[u].subtotal * def.discountValue) \div 100
       IN /\ carts[u].discount =
               (IF def.maximumDiscount # Null /\ def.maximumDiscount < pct
                THEN def.maximumDiscount ELSE pct)
          /\ def.maximumDiscount # Null => carts[u].discount <= def.maximumDiscount
          /\ carts[u].discount <= carts[u].subtotal

\* what C18 asks of a processRefund on an existing order
C18_Step ==
  \A o \in OrderIds :
    o \in 1..Len(orders) =>
      \A a \in RefundAmounts(o) :
        processRefund(o, a) =>
          /\ products' = products
          /\ IF a > orders[o].pricing.total
             THEN /\ orders' = orders
                  /\ reply'.status = 400
             ELSE /\ reply'.status = 200
                  /\ orders'[o].payment.refundAmount = a
                  /\ orders'[o].payment.status =
                       (IF a = orders[o].pricing.total THEN "refunded" ELSE "partially_refunded")
                  /\ orders'[o].status =
                       (IF a = orders[o].pricing.total THEN "refunded" ELSE orders[o].status)
                  /\ Len(orders'[o].timeline) = Len(orders[o].timeline) + 1
                  /\ SubSeq(orders'[o].timeline, 1, Len(orders[o].timeline)) = orders[o].timeline

\* C18: processRefund is rejected, changing nothing, when the amount is
\* above the order's pricing.total; otherwise it sets payment.refundAmount
\* to the amount, payment.status to refunded when the amount is the total
\* and to partially_refunded when it is smaller, the order status to
\* refunded only on a full refund, appends one timeline entry, and leaves
\* all inventory unchanged.
C18_ProcessRefund == [][C18_Step]_vars

\* a full refund of a shipped order has just been made, the sold stock
\* still sold
C18_Witness ==
  /\ reply = Reply("processRefund", 200, "Refund processed successfully")
  /\ Len(orders) = 1
  /\ orders[1].payment.status = "refunded"
  /\ orders[1].payment.refundAmount = orders[1].pricing.total
  /\ orders[1].status = "refunded"
  /\ orders[1].timeline = <<"pending", "shipped", "refunded">>
  /\ products[orders[1].items[1].product].salesCount > 0

\* what C19 asks of an addTracking on an existing order
C19_Step ==
  \A o \in OrderIds :
    (o \in 1..Len(orders) /\ addTracking(o, "ups")) =>
      /\ orders'[o].tracking = "ups"
      /\ IF orders[o].status \in {"pending", "processing"}
         THEN /\ orders'[o].status = "shipped"
              /\ orders'[o].timeline = Append(orders[o].timeline, "shipped")
         ELSE /\ orders'[o].status = orders[o].status
              /\ orders'[o].timeline = orders[o].timeline

\* C19: addTracking always sets the order's tracking; when the order is
\* pending or processing it also moves the order to shipped and appends
\* exactly one timeline entry, and in every other status it leaves status
\* and timeline unchanged.
C19_AddTracking == [][C19_Step]_vars

\* tracking has just been added to a delivered order, which stays delivered
C19_Witness ==
  /\ reply = Reply("addTracking", 200, "Tracking information added")
  /\ Len(orders) = 1
  /\ orders[1].status = "delivered"
  /\ orders[1].tracking = "ups"
  /\ orders[1].timeline = <<"pending", "delivered">>

\* what C20 asks of an updateOrderStatus on an existing order
C20_Step ==
  \A o \in OrderIds, st \in Statuses :
    (o \in 1..Len(orders) /\ updateOrderStatus(o, st)) =>
      /\ reply' = Reply("updateOrderStatus", 200, "Order status updated")
      /\ orders'[o].status = st
      /\ products' = products

\* C20: updateStatus sets the order to any requested status of the enum
\* whatever the current status (delivered to processing and cancelled to
\* pending are accepted), and leaves every inventory quantity and every
\* salesCount unchanged, also when the requested status is cancelled.
C20_AnyStatus == [][C20_Step]_vars

\* an order cancelled by updateStatus and then set back to pending, its
\* stock never put back
C20_Witness ==
  /\ reply = Reply("updateOrderStatus", 200, "Order status updated")
  /\ Len(orders) = 1
  /\ orders[1].timeline = <<"pending", "cancelled", "pending">>
  /\ orders[1].status = "pending"
  /\ products[orders[1].items[1].product].salesCount > 0
  /\ products[orders[1].items[1].product].inventory[orders[1].items[1].sku] < InitStock

\* what C21 asks of an applyCoupon that gets as far as isValid: the reply
\* is one of isValid's reasons exactly when the coupon is to be rejected
C21_Step ==
  \A u \in Users, code \in ScopeCodes :
    LET def == CouponDef(code)
        rejected == \/ ~def.isActive
                    \/ Now < def.startDate
                    \/ Now > def.endDate
                    \/ (def.usageLimit.total # Null
                        /\ coupons[code].usageCount >= def.usageLimit.total)
    IN (applyCoupon(u, code) /\ carts[u].exists /\ carts[u].items # <<>>)
       => /\ (isValid(def, coupons[code]) # "ok") <=> rejected
          /\ rejected <=>
               (/\ reply'.status = 400
                /\ reply'.message \in {"Coupon is inactive", "Coupon not yet active",
                                       "Coupon has expired", "Usage limit reached"}
                /\ carts' = carts)

\* C21: isValid rejects a coupon whenever usageLimit.total is set and
\* usageCount is at or above it, for every set value of the limit, 0
\* included; it rejects an inactive coupon and one outside its window; it
\* accepts otherwise.
C21_IsValid == [][C21_Step]_vars

\* what C22 asks of an applyCoupon with a scoped coupon that is valid, open
\* to the user and within its minimum purchase
C22_Step ==
  \A u \in Users, code \in ScopeCodes :
    LET def == CouponDef(code)
        cart == carts[u]
        lines == 1..Len(cart.items)
    IN (/\ applyCoupon(u, code)
        /\ cart.exists /\ cart.items # <<>>
        /\ isValid(def, coupons[code]) = "ok"
        /\ canUserUse(def, coupons[code], u) = "ok"
        /\ cart.subtotal >= def.minimumPurchase)
       => /\ (def.applyTo = "products" /\ def.applicableProducts # {}) =>
               (reply'.status = 200 <=>
                  \E k \in lines : cart.items[k].product \in def.applicableProducts)
          /\ (def.applyTo = "categories" /\ def.applicableCategories # {}) =>
               (reply'.status = 200 <=>
                  \E k \in lines : Category(cart.items[k].product) \in def.applicableCategories)

\* C22: applyCoupon with a coupon scoped to categories is accepted when at
\* least one cart line's product is of an allowed category and rejected
\* when none is, as with the products scope, where it is accepted exactly
\* when at least one cart product is on the product allow-list.
C22_Scope == [][C22_Step]_vars

\* the stock of a line of request r is below what it was when r started
C23_Decremented(r) ==
  \E k \in 1..Len(slot[r].items) :
    LET item == slot[r].items[k]
    IN products[item.product].inventory[item.sku] < slot[r].pre[item.product].inventory[item.sku]

\* a createOrder request r ends in this step with an error
C23_Fails(r) ==
  /\ slot[r].pc \in {"co_load", "co_stock", "co_sales", "co_coupon", "co_record", "co_clear"}
  /\ slot'[r].pc = "idle"
  /\ reply'.status = 500

C23_Step ==
  \A r \in Reqs :
    /\ C23_Fails(r) =>
         /\ orders' = orders /\ products' = products /\ carts' = carts /\ coupons' = coupons
         /\ slot[r].order \in 1..Len(orders')
         /\ orders'[slot[r].order].items = carts'[slot[r].user].items
         /\ C23_Decremented(r)
    /\ (coUpdateStock(r) \/ coSaveSales(r)) =>
         /\ slot[r].order \in 1..Len(orders)
         /\ orders[slot[r].order].user = slot[r].user

C24_RestoreInverse ==
  (/\ Idle
   /\ orders # <<>>
   /\ \A o \in 1..Len(orders) : orders[o].status = "cancelled")
  => \A p \in Products :
       /\ products[p].inventory = InitProduct(p).inventory
       /\ products[p].totalQuantity = InitProduct(p).totalQuantity
       /\ products[p].salesCount = InitProduct(p).salesCount

\* what C25 asks of a createOrder on a cart that is missing, empty, or has
\* a line whose SKU has no record or too little stock
C25_Step ==
  \A r \in Reqs, u \in Users :
    LET cart == carts[u]
        short(k) == LET item == cart.items[k]
                        inv == products[item.product].inventory
                    IN \/ item.sku \notin DOMAIN inv
                       \/ inv[item.sku] < item.quantity
    IN (/\ createOrder(r, u)
        /\ \/ ~cart.exists
           \/ cart.items = <<>>
           \/ \E k \in 1..Len(cart.items) : short(k))
       => /\ reply'.op = "createOrder" /\ reply'.status = 400
          /\ orders' = orders
          /\ products' = products
          /\ coupons' = coupons
          /\ carts' = carts
          /\ slot'[r].pc = "idle"

\* C25: createOrder is rejected, creating no order and changing no
\* inventory, salesCount, coupon usage or cart content, when the user's
\* cart is missing or empty, or when for some cart line the SKU has no
\* inventory record or its quantity is less than the line's quantity.
C25_Rejected == [][C25_Step]_vars

\* a checkout has just been refused for a cart whose line's SKU is no
\* longer on the product, the coupon still on the cart and unused
C25_Witness ==
  /\ Idle
  /\ reply = Reply("createOrder", 400, "out of stock or insufficient quantity")
  /\ carts[Shopper].items # <<>>
  /\ \E k \in 1..Len(carts[Shopper].items) :
       carts[Shopper].items[k].sku \notin DOMAIN products[carts[Shopper].items[k].product].inventory
  /\ carts[Shopper].coupon.code = "SAVE10"
  /\ coupons["SAVE10"].usageCount = 0
  /\ orders = <<>>

\* C26: over any sequence or interleaving of cancel, updateStatus,
\* addTracking and processRefund requests, the quantity restored to
\* inventory on behalf of an order never exceeds the quantity decremented
\* at its creation: stock is restored at most once per order and
\* salesCount is decremented at most once.  Where only checkouts and
\* cancels touch the stock, no SKU then ever holds more than its initial
\* stock and no salesCount is below zero.
C26_RestoredOnce ==
  \A p \in Products :
    /\ \A s \in DOMAIN products[p].inventory : products[p].inventory[s] <= InitStock
    /\ products[p].salesCount >= 0

\* C27: for every coupon with usageLimit.total set, usageCount never
\* exceeds it, and for every coupon with usageLimit.perUser set no user's
\* recorded count exceeds it, after any sequence of applyCoupon and
\* createOrder operations by any number of users.
C27_LimitsKept ==
  \A c \in CouponCodes :
    LET def == CouponDef(c) IN
    /\ def.usageLimit.total # Null => coupons[c].usageCount <= def.usageLimit.total
    /\ def.usageLimit.perUser # Null =>
         \A k \in 1..Len(coupons[c].usedBy) : coupons[c].usedBy[k].count <= def.usageLimit.perUser

\* C28: two concurrent createOrder requests by the same user on the same
\* cart create at most one order: a createOrder that starts while another
\* checkout of that user's cart is under way creates no order, so that the
\* cart is decremented from inventory and counted as coupon usage once.
C28_OneOrderPerCart ==
  [][\A r \in Reqs, u \in Users :
       (/\ createOrder(r, u)
        /\ \E other \in Reqs \ {r} :
             /\ slot[other].user = u
             /\ slot[other].pc \in {"co_load", "co_stock", "co_sales",
                                    "co_coupon", "co_record", "co_clear"}
             /\ slot[other].items = carts[u].items)
       => orders' = orders]_vars

\* C29: in every reachable cart state the cart holds at most one line per
\* (product, SKU) pair and every line's quantity is at least 1, after any
\* sequence of addItem, updateItemQuantity, removeItem and syncCart.
C29_OneLinePerSku ==
  \A u \in Users :
    carts[u].exists =>
      LET items == carts[u].items IN
      /\ \A k \in 1..Len(items) : items[k].quantity >= 1
      /\ \A j, k \in 1..Len(items) :
           (items[j].product = items[k].product /\ items[j].sku = items[k].sku) => j = k

\* C30: in every reachable state an order's status is the status of the
\* last entry of its timeline, after any sequence of createOrder,
\* updateStatus, cancel, addTracking and processRefund (full or partial).
C30_StatusIsLastEntry ==
  \A o \in 1..Len(orders) :
    /\ orders[o].timeline # <<>>
    /\ orders[o].status = orders[o].timeline[Len(orders[o].timeline)]

====
